---------------------------- MODULE Spec2Model ----------------------------
(*
  Model of src/src/runtime/cgo/cgo.go: the response-file tokenizer
  (buildargv), the argument expander (Flagparse) and the counting flag
  (count.Set).

  Bytes are their ASCII codes; a Go string or []byte is a sequence of
  bytes.  Go indexes from 0: the cursor di keeps that convention and the
  byte under the cursor is data[di + 1].
*)
EXTENDS Integers, Sequences, FiniteSets, TLC

VARIABLES
  \* buildargv (lines 68-154)
  data, di, squote, dquote, bsquote, arg, result, bpc,
  \* Flagparse (lines 156-201) and its environment
  osArgs, fs, args, ai, file, err, contents, fpc, opens, openFiles, logged,
  parsed,
  \* the process
  proc, exitCode,
  \* count (lines 244-264)
  c, cerr, lastS,
  \* versionFlag (lines 207-239), what it reads and writes, and the flag
  \* parser that calls Set
  Version, expstring, defaultExpstring, buildID, stdout, fi, vpc

varsArgv  == <<data, di, squote, dquote, bsquote, arg, result, bpc>>
varsFlag  == <<osArgs, fs, args, ai, file, err, contents, fpc, opens,
               openFiles, logged, parsed>>
varsProc  == <<proc, exitCode>>
varsCount == <<c, cerr, lastS>>
varsVer   == <<Version, expstring, defaultExpstring, buildID, stdout, fi, vpc>>
vars      == <<varsArgv, varsFlag, varsProc, varsCount, varsVer>>

-----------------------------------------------------------------------------
\* Bounds of the model

\* longest enumerated tokenizer buffer
MaxLen == 3
\* longest enumerated os.Args
MaxArgs == 3
\* width of Go's int in the model (the real width is 32 or 64)
IntBits == 4

-----------------------------------------------------------------------------
\* Byte literals of the source

SPACE  == 32
TAB    == 9
NEWLN  == 10
VTAB   == 11
FFEED  == 12
CRET   == 13
SQUOTE == 39
DQUOTE == 34
BSLASH == 92
ATSIGN == 64

-----------------------------------------------------------------------------
\* buildargv: pure helpers

ISSPACE_NoVT(ch) ==
  ch = SPACE \/ ch = TAB \/ ch = NEWLN \/ ch = FFEED \/ ch = CRET

\* lines 78-80
ISSPACE(ch) ==
  ch = SPACE \/ ch = TAB \/ ch = NEWLN \/ ch = VTAB \/ ch = FFEED \/ ch = CRET

\* lines 83-90: the first index >= idx holding a non-whitespace byte, or
\* len(data)
RECURSIVE consume_whitespace(_, _)
consume_whitespace(idx, d) ==
  IF idx < Len(d)
    THEN IF ~ISSPACE(d[idx + 1]) THEN idx ELSE consume_whitespace(idx + 1, d)
    ELSE Len(d)

\* line 75: the three parsing states, plus the argument being built
NoFlags == [squote |-> FALSE, dquote |-> FALSE, bsquote |-> FALSE, arg |-> <<>>]

ScanBreak_EscapeIgnored(st, ch) == ISSPACE(ch) /\ ~st.squote /\ ~st.dquote

\* line 105: the test that ends the scan of one argument
ScanBreak(st, ch) == ISSPACE(ch) /\ ~st.squote /\ ~st.dquote /\ ~st.bsquote

ScanByte_QuoteKept(st, ch) ==
  IF st.bsquote THEN [st EXCEPT !.bsquote = FALSE, !.arg = Append(@, ch)]
  ELSE IF ch = BSLASH THEN [st EXCEPT !.bsquote = TRUE]
  ELSE IF st.squote THEN
    IF ch = SQUOTE THEN [st EXCEPT !.squote = FALSE]
    ELSE [st EXCEPT !.arg = Append(@, ch)]
  ELSE IF st.dquote THEN
    IF ch = DQUOTE THEN [st EXCEPT !.dquote = FALSE]
    ELSE [st EXCEPT !.arg = Append(@, ch)]
  ELSE IF ch = SQUOTE THEN [st EXCEPT !.squote = TRUE, !.arg = Append(@, ch)]
  ELSE IF ch = DQUOTE THEN [st EXCEPT !.dquote = TRUE]
  ELSE [st EXCEPT !.arg = Append(@, ch)]

ScanByte_EscapeInQuoteOff(st, ch) ==
  IF st.bsquote THEN [st EXCEPT !.bsquote = FALSE, !.arg = Append(@, ch)]
  ELSE IF st.squote THEN
    IF ch = SQUOTE THEN [st EXCEPT !.squote = FALSE]
    ELSE [st EXCEPT !.arg = Append(@, ch)]
  ELSE IF ch = BSLASH THEN [st EXCEPT !.bsquote = TRUE]
  ELSE IF st.dquote THEN
    IF ch = DQUOTE THEN [st EXCEPT !.dquote = FALSE]
    ELSE [st EXCEPT !.arg = Append(@, ch)]
  ELSE IF ch = SQUOTE THEN [st EXCEPT !.squote = TRUE]
  ELSE IF ch = DQUOTE THEN [st EXCEPT !.dquote = TRUE]
  ELSE [st EXCEPT !.arg = Append(@, ch)]

ScanByte_NestedQuotes(st, ch) ==
  IF st.bsquote THEN [st EXCEPT !.bsquote = FALSE, !.arg = Append(@, ch)]
  ELSE IF ch = BSLASH THEN [st EXCEPT !.bsquote = TRUE]
  ELSE IF ch = SQUOTE /\ ~st.squote THEN [st EXCEPT !.squote = TRUE]
  ELSE IF ch = DQUOTE /\ ~st.dquote THEN [st EXCEPT !.dquote = TRUE]
  ELSE IF ch = SQUOTE THEN [st EXCEPT !.squote = FALSE]
  ELSE IF ch = DQUOTE THEN [st EXCEPT !.dquote = FALSE]
  ELSE [st EXCEPT !.arg = Append(@, ch)]

\* lines 109-141: what one byte does to the parsing states and to arg
ScanByte(st, ch) ==
  IF st.bsquote THEN [st EXCEPT !.bsquote = FALSE, !.arg = Append(@, ch)]
  ELSE IF ch = BSLASH THEN [st EXCEPT !.bsquote = TRUE]
  ELSE IF st.squote THEN
    IF ch = SQUOTE THEN [st EXCEPT !.squote = FALSE]
    ELSE [st EXCEPT !.arg = Append(@, ch)]
  ELSE IF st.dquote THEN
    IF ch = DQUOTE THEN [st EXCEPT !.dquote = FALSE]
    ELSE [st EXCEPT !.arg = Append(@, ch)]
  ELSE IF ch = SQUOTE THEN [st EXCEPT !.squote = TRUE]
  ELSE IF ch = DQUOTE THEN [st EXCEPT !.dquote = TRUE]
  ELSE [st EXCEPT !.arg = Append(@, ch)]

\* lines 104-145: the scan of one argument from index i
RECURSIVE ScanArg(_, _, _)
ScanArg(st, i, d) ==
  IF i < Len(d) /\ ~ScanBreak(st, d[i + 1])
    THEN ScanArg(ScanByte(st, d[i + 1]), i + 1, d)
    ELSE [st |-> st, di |-> i]

\* lines 99-150: the argument loop; the parsing states are carried from
\* one argument to the next (line 75 declares them outside the loop), arg
\* is reset (line 103)
RECURSIVE ArgLoop(_, _, _, _)
ArgLoop(st, i, res, d) ==
  IF i < Len(d)
    THEN LET s == ScanArg([st EXCEPT !.arg = <<>>], i, d)
         IN  ArgLoop(s.st, consume_whitespace(s.di, d), Append(res, s.st.arg), d)
    ELSE res

\* lines 68-154
buildargv(d) ==
  LET di0 == consume_whitespace(0, d)
  IN  IF di0 >= Len(d) THEN <<>> ELSE ArgLoop(NoFlags, di0, <<>>, d)

-----------------------------------------------------------------------------
\* buildargv: one step per loop pass

\* the parsing states of the running call, as ScanByte takes them
CurFlags == [squote |-> squote, dquote |-> dquote, bsquote |-> bsquote,
             arg |-> arg]

\* the buffers buildargv is run on: every buffer of at most MaxLen bytes
\* over the bytes the code tells apart and two ordinary bytes, and the
\* buffers the documentation gives as examples
Alphabet == {SPACE, TAB, NEWLN, VTAB, FFEED, CRET, SQUOTE, DQUOTE, BSLASH,
             97, 98}

ExampleBuffers ==
  { <<97, 32, 39, 98, 32, 99, 39, 32, 100>>,     \* a 'b c' d
    <<97, 92, 32, 98>>,                          \* a\ b
    <<45, 120, 32, 45, 121, 61, 49>>,            \* -x -y=1
    <<97, 32, 34, 98, 9, 39, 99, 34, 100>> }     \* a "b<TAB>'c"d

Buffers == (UNION { [1..n -> Alphabet] : n \in 0..MaxLen }) \cup ExampleBuffers

\* lines 92-96
BuildargvStart ==
  /\ bpc = "start"
  /\ di' = consume_whitespace(0, data)
  /\ bpc' = IF di' >= Len(data) THEN "done" ELSE "argloop"
  /\ UNCHANGED <<data, squote, dquote, bsquote, arg, result>>

\* lines 99-103: the argument loop is entered and arg reset
ArgLoopEnter ==
  /\ bpc = "argloop"
  /\ di < Len(data)
  /\ arg' = <<>>
  /\ bpc' = "scan"
  /\ UNCHANGED <<data, di, squote, dquote, bsquote, result>>

\* lines 104-144: one byte of the scan
ScanStep ==
  /\ bpc = "scan"
  /\ di < Len(data)
  /\ ~ScanBreak(CurFlags, data[di + 1])
  /\ LET st == ScanByte(CurFlags, data[di + 1])
     IN  /\ squote' = st.squote
         /\ dquote' = st.dquote
         /\ bsquote' = st.bsquote
         /\ arg' = st.arg
  /\ di' = di + 1
  /\ UNCHANGED <<data, result, bpc>>

EmitArg_DropUnterminated ==
  /\ bpc = "scan"
  /\ IF di < Len(data) THEN ScanBreak(CurFlags, data[di + 1]) ELSE TRUE
  /\ result' = IF squote \/ dquote \/ bsquote THEN result
                                              ELSE Append(result, arg)
  /\ di' = consume_whitespace(di, data)
  /\ bpc' = "argloop"
  /\ UNCHANGED <<data, squote, dquote, bsquote, arg>>

EmitArg_NoSkip ==
  /\ bpc = "scan"
  /\ IF di < Len(data) THEN ScanBreak(CurFlags, data[di + 1]) ELSE TRUE
  /\ result' = Append(result, arg)
  /\ di' = di
  /\ bpc' = "argloop"
  /\ UNCHANGED <<data, squote, dquote, bsquote, arg>>

\* lines 104-106, 147-149: the scan ends, at the end of the buffer or at
\* the break; the argument is added and the whitespace after it consumed
EmitArg ==
  /\ bpc = "scan"
  /\ IF di < Len(data) THEN ScanBreak(CurFlags, data[di + 1]) ELSE TRUE
  /\ result' = Append(result, arg)
  /\ di' = consume_whitespace(di, data)
  /\ bpc' = "argloop"
  /\ UNCHANGED <<data, squote, dquote, bsquote, arg>>

\* lines 99, 152-153: the argument loop ends and result is returned
BuildargvReturn ==
  /\ bpc = "argloop"
  /\ di >= Len(data)
  /\ bpc' = "done"
  /\ UNCHANGED <<data, di, squote, dquote, bsquote, arg, result>>

-----------------------------------------------------------------------------
\* Flagparse: the environment (files) and the library calls it makes

\* the *os.File of line 175; nil when the open failed
NilFile == [valid |-> FALSE, path |-> <<>>]

\* line 169: strings.HasPrefix(arg, "@")
HasPrefixAt(a) == Len(a) >= 1 /\ a[1] = ATSIGN

IsResponseArg_AnyNonEmpty(a) == Len(a) >= 1

\* line 169: the negation of the pass-through test
IsResponseArg(a) == ~(~HasPrefixAt(a) \/ Len(a) < 1)

\* line 175: arg[1:]
PathOf(a) == Tail(a)

\* line 175: os.Open(path); fs[path].open is what the open of that file
\* gives ("ok", "ENOENT" or "EACCES")
\* a path fs does not list does not exist
osOpen(path) ==
  IF path \notin DOMAIN fs THEN [file |-> NilFile, err |-> "ENOENT"]
  ELSE IF fs[path].open = "ok"
    THEN [file |-> [valid |-> TRUE, path |-> path], err |-> "nil"]
    ELSE [file |-> NilFile, err |-> fs[path].open]

IsNotExist_Never(e) == FALSE

IsNotExist_AnyError(e) == e # "nil"

\* line 176: os.IsNotExist(err)
IsNotExist(e) == e = "ENOENT"

\* line 183: ioutil.ReadAll(file); a read of a nil *os.File fails with
\* os.ErrInvalid
ReadAll(f) ==
  IF ~f.valid THEN [contents |-> <<>>, err |-> "EINVAL"]
  ELSE IF fs[f.path].read = "ok"
    THEN [contents |-> fs[f.path].contents, err |-> "nil"]
    ELSE [contents |-> <<>>, err |-> fs[f.path].read]

\* line 194: file.Close()
fileClose(f) ==
  IF ~f.valid THEN "EINVAL"
  ELSE IF fs[f.path].close = "ok" THEN "nil" ELSE fs[f.path].close

ExpandArgs_Whole(as, cont) == Append(as, cont)

RECURSIVE NestedRows(_)
NestedRows(rows) ==
  IF rows = <<>> THEN <<>>
  ELSE LET r == Head(rows)
       IN  (IF IsResponseArg(r) /\ PathOf(r) \in DOMAIN fs
                 /\ fs[PathOf(r)].open = "ok"
              THEN buildargv(fs[PathOf(r)].contents)
              ELSE <<r>>) \o NestedRows(Tail(rows))

ExpandArgs_Nested(as, cont) == as \o NestedRows(buildargv(cont))

\* lines 189-191: every row of buildargv(contents) is appended to args
ExpandArgs(as, cont) == as \o buildargv(cont)

\* lines 177, 185, 195: one log line
LogLine(kind, text, path, e) ==
  [kind |-> kind, text |-> text, path |-> path, err |-> e]

-----------------------------------------------------------------------------
\* Flagparse: one step per statement of the loop

\* the argument the range loop of line 167 is at
CurArg == osArgs[ai + 1]

\* lines 167-172: an argument that is no response file is copied
PassThrough ==
  /\ fpc = "loop"
  /\ ai < Len(osArgs)
  /\ ~IsResponseArg(CurArg)
  /\ args' = Append(args, CurArg)
  /\ ai' = ai + 1
  /\ UNCHANGED <<osArgs, fs, file, err, contents, fpc, opens, openFiles,
                 logged, parsed, proc, exitCode>>

\* line 175
OpenResponse ==
  /\ fpc = "loop"
  /\ ai < Len(osArgs)
  /\ IsResponseArg(CurArg)
  /\ LET r == osOpen(PathOf(CurArg))
     IN  /\ file' = r.file
         /\ err' = r.err
         /\ openFiles' = IF r.file.valid THEN openFiles \cup {r.file.path}
                                         ELSE openFiles
  /\ opens' = Append(opens, PathOf(CurArg))
  /\ fpc' = "opened"
  /\ UNCHANGED <<osArgs, fs, args, ai, contents, logged, parsed, proc,
                 exitCode>>

\* lines 176-180: the file does not exist
NotExist ==
  /\ fpc = "opened"
  /\ IsNotExist(err)
  /\ logged' = Append(logged, LogLine("Printf", "Unable to open response file",
                                      PathOf(CurArg), err))
  /\ args' = Append(args, CurArg)
  /\ ai' = ai + 1
  /\ fpc' = "loop"
  /\ UNCHANGED <<osArgs, fs, file, err, contents, opens, openFiles, parsed,
                 proc, exitCode>>

\* line 183
ReadContents ==
  /\ fpc = "opened"
  /\ ~IsNotExist(err)
  /\ LET r == ReadAll(file)
     IN  /\ contents' = r.contents
         /\ err' = r.err
  /\ fpc' = "read"
  /\ UNCHANGED <<osArgs, fs, args, ai, file, opens, openFiles, logged,
                 parsed, proc, exitCode>>

\* lines 184-186: log.Fatalf ends the process with status 1
ReadFatal ==
  /\ fpc = "read"
  /\ err # "nil"
  /\ logged' = Append(logged,
                      LogLine("Fatalf", "Unable to read contents of response file",
                              PathOf(CurArg), err))
  /\ proc' = "exited"
  /\ exitCode' = 1
  /\ fpc' = "fatal"
  /\ UNCHANGED <<osArgs, fs, args, ai, file, err, contents, opens, openFiles,
                 parsed>>

\* lines 188-191
Expand ==
  /\ fpc = "read"
  /\ err = "nil"
  /\ args' = ExpandArgs(args, contents)
  /\ fpc' = "close"
  /\ UNCHANGED <<osArgs, fs, ai, file, err, contents, opens, openFiles,
                 logged, parsed, proc, exitCode>>

\* lines 194-197: the close succeeds and the loop goes on
CloseOk ==
  /\ fpc = "close"
  /\ fileClose(file) = "nil"
  /\ openFiles' = openFiles \ {file.path}
  /\ ai' = ai + 1
  /\ fpc' = "loop"
  /\ UNCHANGED <<osArgs, fs, args, file, err, contents, opens, logged,
                 parsed, proc, exitCode>>

\* lines 194-196: the close fails; the err of line 194 is local to the if
CloseFatal ==
  /\ fpc = "close"
  /\ fileClose(file) # "nil"
  /\ openFiles' = openFiles \ {file.path}
  /\ logged' = Append(logged,
                      LogLine("Fatalf", "Unable to close response file",
                              PathOf(CurArg), fileClose(file)))
  /\ proc' = "exited"
  /\ exitCode' = 1
  /\ fpc' = "fatal"
  /\ UNCHANGED <<osArgs, fs, args, ai, file, err, contents, opens, parsed>>

\* lines 199-200: os.Args is replaced and flag.Parse called
FlagparseFinish ==
  /\ fpc = "loop"
  /\ ai >= Len(osArgs)
  /\ osArgs' = args
  /\ parsed' = TRUE
  /\ fpc' = "parsed"
  /\ UNCHANGED <<fs, args, ai, file, err, contents, opens, openFiles, logged,
                 proc, exitCode>>

-----------------------------------------------------------------------------
\* count: the counting flag

\* Go's int, IntBits wide, two's complement
IntMax == 2 ^ (IntBits - 1) - 1
IntMin == -(2 ^ (IntBits - 1))

\* line 253: Go's integer arithmetic wraps around
WrapInt(n) == ((n - IntMin) % (2 ^ IntBits)) + IntMin

StrTrue  == <<116, 114, 117, 101>>
StrFalse == <<102, 97, 108, 115, 101>>

IsDigit(b) == b >= 48 /\ b <= 57

RECURSIVE DigitsValue(_)
DigitsValue(ds) ==
  IF ds = <<>> THEN 0
  ELSE DigitsValue(SubSeq(ds, 1, Len(ds) - 1)) * 10 + (ds[Len(ds)] - 48)

\* line 257: strconv.Atoi(s): an optional sign, then one or more decimal
\* digits, the value within the range of int
Atoi(s) ==
  LET signed == Len(s) >= 1 /\ (s[1] = 45 \/ s[1] = 43)
      body   == IF signed THEN Tail(s) ELSE s
  IN  IF body = <<>> \/ \E k \in 1..Len(body) : ~IsDigit(body[k])
        THEN [n |-> 0, err |-> "ErrSyntax"]
        ELSE LET v == IF signed /\ s[1] = 45 THEN -DigitsValue(body)
                                             ELSE DigitsValue(body)
             IN  IF v > IntMax THEN [n |-> IntMax, err |-> "ErrRange"]
                 ELSE IF v < IntMin THEN [n |-> IntMin, err |-> "ErrRange"]
                 ELSE [n |-> v, err |-> "nil"]

RECURSIVE Utoa(_)
Utoa(n) == IF n < 10 THEN <<48 + n>> ELSE Utoa(n \div 10) \o <<48 + (n % 10)>>

\* lines 246-248: fmt.Sprint(int(*c))
countString(n) == IF n < 0 THEN <<45>> \o Utoa(-n) ELSE Utoa(n)

\* line 259: the verb %q: the text between double quotes, a double quote
\* or a backslash in it escaped by a backslash (printable ASCII)
RECURSIVE QuoteBody(_)
QuoteBody(s) ==
  IF s = <<>> THEN <<>>
  ELSE (IF Head(s) = DQUOTE \/ Head(s) = BSLASH THEN <<BSLASH, Head(s)>>
                                                 ELSE <<Head(s)>>)
       \o QuoteBody(Tail(s))

Quote(s) == <<DQUOTE>> \o QuoteBody(s) \o <<DQUOTE>>

\* "invalid count "
StrInvalidCount ==
  <<105, 110, 118, 97, 108, 105, 100, 32, 99, 111, 117, 110, 116, 32>>

\* the error values Set returns
NoError == [nil |-> TRUE, msg |-> <<>>]
Errorf(msg) == [nil |-> FALSE, msg |-> msg]

countSet_TrueSetsOne(cv, s) ==
  IF s = StrTrue THEN [c |-> 1, err |-> NoError]
  ELSE IF s = StrFalse THEN [c |-> 0, err |-> NoError]
  ELSE LET r == Atoi(s)
       IN  IF r.err # "nil"
             THEN [c |-> cv, err |-> Errorf(StrInvalidCount \o Quote(s))]
             ELSE [c |-> r.n, err |-> NoError]

countSet_ErrorStores(cv, s) ==
  IF s = StrTrue THEN [c |-> WrapInt(cv + 1), err |-> NoError]
  ELSE IF s = StrFalse THEN [c |-> 0, err |-> NoError]
  ELSE LET r == Atoi(s)
       IN  IF r.err # "nil"
             THEN [c |-> r.n, err |-> Errorf(StrInvalidCount \o Quote(s))]
             ELSE [c |-> r.n, err |-> NoError]

\* lines 250-264: the stored count and the error after Set(s) on count cv
countSet(cv, s) ==
  IF s = StrTrue THEN [c |-> WrapInt(cv + 1), err |-> NoError]
  ELSE IF s = StrFalse THEN [c |-> 0, err |-> NoError]
  ELSE LET r == Atoi(s)
       IN  IF r.err # "nil"
             THEN [c |-> cv, err |-> Errorf(StrInvalidCount \o Quote(s))]
             ELSE [c |-> r.n, err |-> NoError]

\* the texts Set is called with: the two flag.Parse passes for a boolean
\* flag, every numeral of the int range and the two just outside it, and
\* texts that are no numeral
SetInputs ==
  {StrTrue, StrFalse}
    \cup { countString(n) : n \in (IntMin - 1)..(IntMax + 1) }
    \cup { <<97, 98, 99>>,          \* abc
           <<>>,                    \* the empty text
           <<43, 51>>,              \* +3
           <<48, 48, 55>>,          \* 007
           <<45>>,                  \* -
           <<49, 97>>,              \* 1a
           <<84, 82, 85, 69>>,      \* TRUE
           <<34, 55>> }             \* "7

\* lines 250-264
CountSet ==
  /\ proc = "running"
  /\ \E s \in SetInputs :
       LET r == countSet(c, s)
       IN  /\ c' = r.c
           /\ cerr' = r.err
           /\ lastS' = s
  /\ UNCHANGED <<proc, exitCode>>

-----------------------------------------------------------------------------
\* The inputs and the specifications

StrProg == <<112, 114, 111, 103>>     \* prog
PathR == <<114>>                       \* r
PathM == <<109>>                       \* m
Paths == {PathR, PathM}

\* the arguments os.Args is made of
ArgPool == { StrProg,
             <<>>,
             <<45, 120>>,             \* -x
             <<ATSIGN>> \o PathR,     \* @r
             <<ATSIGN>> \o PathM }    \* @m

ArgLists == UNION { [1..n -> ArgPool] : n \in 1..MaxArgs }

\* what a response file holds
FileContents ==
  { <<45, 120, 32, 45, 121, 61, 49>>,           \* -x -y=1
    <<64, 114, 10, 39, 64, 109, 32, 39>>,       \* @r<NL>'@m '
    <<32, 9, 10>> }                             \* whitespace only

\* what a path of the file system is: whether it opens, reads and closes,
\* and what it holds (fields that cannot be observed are fixed)
FileStates ==
  { f \in [open : {"ok", "ENOENT", "EACCES"}, read : {"ok", "EIO"},
           close : {"ok", "EIO"}, contents : FileContents \cup {<<>>}] :
      /\ f.open # "ok" => f.read = "ok" /\ f.close = "ok" /\ f.contents = <<>>
      /\ f.open = "ok" /\ f.read # "ok" => f.close = "ok" /\ f.contents = <<>>
      /\ f.open = "ok" /\ f.read = "ok" => f.contents # <<>> }

IdleArgv ==
  /\ data = <<>> /\ di = 0 /\ squote = FALSE /\ dquote = FALSE
  /\ bsquote = FALSE /\ arg = <<>> /\ result = <<>> /\ bpc = "idle"

IdleFlag ==
  /\ osArgs = <<StrProg>> /\ fs = [p \in Paths |-> [open |-> "ENOENT",
        read |-> "ok", close |-> "ok", contents |-> <<>>]]
  /\ args = <<>> /\ ai = 0 /\ file = NilFile /\ err = "nil"
  /\ contents = <<>> /\ fpc = "idle" /\ opens = <<>> /\ openFiles = {}
  /\ logged = <<>> /\ parsed = FALSE

IdleCount == c = 0 /\ cerr = NoError /\ lastS = <<>>

Running == proc = "running" /\ exitCode = 0

IdleVer ==
  /\ Version = <<>> /\ expstring = <<>> /\ defaultExpstring = <<>>
  /\ buildID = <<>> /\ stdout = <<>> /\ fi = 0 /\ vpc = "idle"

\* Flagparse is called on any argument list and file system
Init ==
  /\ osArgs \in ArgLists
  /\ fs \in [Paths -> FileStates]
  /\ args = <<>> /\ ai = 0 /\ file = NilFile /\ err = "nil"
  /\ contents = <<>> /\ fpc = "loop" /\ opens = <<>> /\ openFiles = {}
  /\ logged = <<>> /\ parsed = FALSE
  /\ Running /\ IdleArgv /\ IdleCount /\ IdleVer

Next ==
  \/ PassThrough /\ UNCHANGED <<varsArgv, varsCount, varsVer>>
  \/ OpenResponse /\ UNCHANGED <<varsArgv, varsCount, varsVer>>
  \/ NotExist /\ UNCHANGED <<varsArgv, varsCount, varsVer>>
  \/ ReadContents /\ UNCHANGED <<varsArgv, varsCount, varsVer>>
  \/ ReadFatal /\ UNCHANGED <<varsArgv, varsCount, varsVer>>
  \/ Expand /\ UNCHANGED <<varsArgv, varsCount, varsVer>>
  \/ CloseOk /\ UNCHANGED <<varsArgv, varsCount, varsVer>>
  \/ CloseFatal /\ UNCHANGED <<varsArgv, varsCount, varsVer>>
  \/ FlagparseFinish /\ UNCHANGED <<varsArgv, varsCount, varsVer>>

Spec == Init /\ [][Next]_vars

\* buildargv is called on any buffer
InitArgv ==
  /\ data \in Buffers
  /\ di = 0 /\ squote = FALSE /\ dquote = FALSE /\ bsquote = FALSE
  /\ arg = <<>> /\ result = <<>> /\ bpc = "start"
  /\ Running /\ IdleFlag /\ IdleCount /\ IdleVer

NextArgv ==
  \/ BuildargvStart /\ UNCHANGED <<varsFlag, varsProc, varsCount, varsVer>>
  \/ ArgLoopEnter /\ UNCHANGED <<varsFlag, varsProc, varsCount, varsVer>>
  \/ ScanStep /\ UNCHANGED <<varsFlag, varsProc, varsCount, varsVer>>
  \/ EmitArg /\ UNCHANGED <<varsFlag, varsProc, varsCount, varsVer>>
  \/ BuildargvReturn /\ UNCHANGED <<varsFlag, varsProc, varsCount, varsVer>>

SpecArgv == InitArgv /\ [][NextArgv]_vars

\* buildargv runs to completion: a step that can be taken is taken
SpecArgvFair == SpecArgv /\ WF_vars(NextArgv)

\* Set is called any number of times on a count holding any value
InitCount ==
  /\ c \in IntMin..IntMax
  /\ cerr = NoError
  /\ lastS = <<>>
  /\ Running /\ IdleArgv /\ IdleFlag /\ IdleVer

NextCount == CountSet /\ UNCHANGED <<varsArgv, varsFlag, varsVer>>

SpecCount == InitCount /\ [][NextCount]_vars

-----------------------------------------------------------------------------
\* Properties of buildargv (checked under SpecArgv)

\* the six whitespace bytes: space, tab, newline, vertical tab, form feed,
\* carriage return
WS6 == {32, 9, 10, 11, 12, 13}

\* the bytes that start quoting or escaping
QuoteBytes == {39, 34, 92}

\* the indices at which a maximal run of non-whitespace bytes of d starts
RunStarts(d) ==
  { i \in 1..Len(d) : d[i] \notin WS6 /\ (i = 1 \/ d[i - 1] \in WS6) }

\* the index at which the run starting at i ends
RunEnd(d, i) ==
  CHOOSE j \in i..Len(d) :
    /\ \A k \in i..j : d[k] \notin WS6
    /\ j = Len(d) \/ d[j + 1] \in WS6

\* the maximal runs of non-whitespace bytes of d, in buffer order
Words(d) ==
  [ n \in 1..Cardinality(RunStarts(d)) |->
      LET i == CHOOSE x \in RunStarts(d) :
                 Cardinality({ y \in RunStarts(d) : y < x }) = n - 1
      IN  SubSeq(d, i, RunEnd(d, i)) ]

\* the byte under the cursor while an argument is scanned
ScanningByte == bpc = "scan" /\ di < Len(data)

C3_QuoteToggle ==
  /\ [][ ScanningByte =>
           LET ch == data[di + 1]
           IN  /\ (ch = 39 /\ ~dquote /\ ~bsquote)
                    => squote' = ~squote /\ arg' = arg /\ dquote' = dquote
               /\ (ch = 34 /\ ~squote /\ ~bsquote)
                    => dquote' = ~dquote /\ arg' = arg /\ squote' = squote
               /\ (ch \in WS6 /\ (squote \/ dquote))
                    => /\ arg' = Append(arg, ch)
                       /\ result' = result
                       /\ bpc' = "scan" ]_vars
  /\ [](bpc = "done" /\ data = <<97, 32, 39, 98, 32, 99, 39, 32, 100>>
          => result = << <<97>>, <<98, 32, 99>>, <<100>> >>)

\* a 'b c' d has been tokenized into three arguments
C3_Witness ==
  /\ bpc = "done"
  /\ data = <<97, 32, 39, 98, 32, 99, 39, 32, 100>>
  /\ Len(result) = 3

StepsAgree == bpc = "done" => result = buildargv(data)

-----------------------------------------------------------------------------
\* Properties of Flagparse (checked under Spec).  They are stated from the
\* argument list and the file system alone; os.Args is the original list
\* until FlagparseFinish replaces it.

\* an argument that names a response file
IsAt(a) == Len(a) > 0 /\ a[1] = 64

\* the file an @-argument names (a path the file system does not list
\* does not exist)
FileOf(a) ==
  IF Tail(a) \in DOMAIN fs THEN fs[Tail(a)]
  ELSE [open |-> "ENOENT", read |-> "ok", close |-> "ok", contents |-> <<>>]

\* its file opens, reads and closes without error
Succeeds(a) ==
  /\ IsAt(a)
  /\ FileOf(a).open = "ok" /\ FileOf(a).read = "ok" /\ FileOf(a).close = "ok"

\* its file does not exist
Missing(a) == IsAt(a) /\ FileOf(a).open = "ENOENT"

\* its open fails for another reason
OpenFails(a) == IsAt(a) /\ FileOf(a).open \notin {"ok", "ENOENT"}

\* it opens and its read fails
ReadFails(a) == IsAt(a) /\ FileOf(a).open = "ok" /\ FileOf(a).read # "ok"

\* it opens and reads and its close fails
CloseFails(a) ==
  /\ IsAt(a)
  /\ FileOf(a).open = "ok" /\ FileOf(a).read = "ok" /\ FileOf(a).close # "ok"

\* any failure but not-found
Fails(a) == OpenFails(a) \/ ReadFails(a) \/ CloseFails(a)

\* what one argument contributes to the expanded list
Res(a) ==
  IF Succeeds(a) THEN buildargv(FileOf(a).contents)
  ELSE IF Fails(a) THEN <<>>
  ELSE <<a>>

\* the contributions of the first k arguments, concatenated in order
RECURSIVE FlatRes(_)
FlatRes(k) == IF k = 0 THEN <<>> ELSE FlatRes(k - 1) \o Res(osArgs[k])

\* where the contribution of argument k starts in the expanded list
Off(k) == Len(FlatRes(k - 1))

\* the part of the expanded list that stands at the position of argument k
Slice(k) == SubSeq(args, Off(k) + 1, Off(k) + Len(Res(osArgs[k])))

\* the @-prefixed arguments among the first k
NumAt(k) == Cardinality({ j \in 1..k : IsAt(osArgs[j]) })

\* the loop is between two arguments, or past the last
AtLoopHead == fpc = "loop"

\* C1: for every @path argument whose file opens, reads and closes
\* without error, the expanded list holds, at the position of the argument
\* and in place of it, exactly buildargv(contents of the file), in order;
\* [prog, @r] with r holding -x -y=1 gives [prog, -x, -y=1].
C1_ExpandSuccess ==
  /\ AtLoopHead =>
       \A k \in 1..ai :
         Succeeds(osArgs[k]) =>
           /\ Off(k) + Len(buildargv(FileOf(osArgs[k]).contents)) <= Len(args)
           /\ Slice(k) = buildargv(FileOf(osArgs[k]).contents)
  /\ ( /\ AtLoopHead /\ ai = 2
       /\ osArgs = << <<112, 114, 111, 103>>, <<64, 114>> >>
       /\ Succeeds(<<64, 114>>)
       /\ fs[<<114>>].contents = <<45, 120, 32, 45, 121, 61, 49>> )
       => args = << <<112, 114, 111, 103>>, <<45, 120>>, <<45, 121, 61, 49>> >>
  /\ fpc = "parsed" => osArgs = args

\* [prog, @r] has been expanded to [prog, -x, -y=1] from the file r
C1_Witness ==
  /\ fpc = "parsed"
  /\ osArgs = << <<112, 114, 111, 103>>, <<45, 120>>, <<45, 121, 61, 49>> >>
  /\ opens = << <<114>> >>
  /\ fs[<<114>>].contents = <<45, 120, 32, 45, 121, 61, 49>>

\* C5: an @-argument whose file does not exist is appended unchanged, the
\* process does not terminate on it, and the arguments after it are still
\* visited before os.Args is replaced.
C5_NotFound ==
  /\ [](AtLoopHead =>
          \A k \in 1..ai :
            Missing(osArgs[k]) => Slice(k) = <<osArgs[k]>>)
  /\ []((fpc \in {"opened", "read", "close", "fatal"} /\ Missing(CurArg))
          => fpc = "opened" /\ proc = "running")
  /\ [][ (fpc = "opened" /\ Missing(CurArg))
           => /\ args' = Append(args, CurArg)
              /\ ai' = ai + 1
              /\ fpc' = "loop"
              /\ proc' = "running" ]_vars
  /\ [][ fpc' = "parsed" => ai = Len(osArgs) ]_vars

\* [prog, @m, -x] with m missing has been passed through whole, with one
\* diagnostic logged
C5_Witness ==
  /\ fpc = "parsed"
  /\ osArgs = << <<112, 114, 111, 103>>, <<64, 109>>, <<45, 120>> >>
  /\ opens = << <<109>> >>
  /\ fs[<<109>>].open = "ENOENT"
  /\ Len(logged) = 1
  /\ proc = "running"

\* C6: when the open of a response file fails for a reason other than
\* not-found, or its read or its close fails, the process stops: no later
\* argument is processed, os.Args is never replaced and the flag parser is
\* never invoked; not-found is the only failure processing continues after.
C6_Fatal ==
  /\ [](fpc # "parsed" =>
          \A k \in 1..Len(osArgs) : Fails(osArgs[k]) => ai < k)
  /\ [](fpc # "parsed" =>
          \A k \in 1..ai : IsAt(osArgs[k]) =>
            Succeeds(osArgs[k]) \/ Missing(osArgs[k]))
  /\ [][ (\E k \in 1..Len(osArgs) : Fails(osArgs[k]))
           => osArgs' = osArgs /\ ~parsed' /\ fpc' # "parsed" ]_vars
  /\ [][ ( \/ fpc = "read" /\ (OpenFails(CurArg) \/ ReadFails(CurArg))
           \/ fpc = "close" /\ CloseFails(CurArg) )
           => proc' = "exited" /\ exitCode' = 1 /\ ai' = ai ]_vars
  /\ [][ proc # "exited" ]_vars
  /\ [](proc = "exited" => exitCode = 1 /\ ~parsed /\ Fails(CurArg))

\* the process has exited on [prog, @r, -x] with r unreadable by
\* permission, before -x was visited
C6_Witness ==
  /\ proc = "exited"
  /\ osArgs = << <<112, 114, 111, 103>>, <<64, 114>>, <<45, 120>> >>
  /\ fs[<<114>>].open = "EACCES"
  /\ ai = 1
  /\ ~parsed

\* C7: an argument that comes out of a response file is appended verbatim
\* even when it begins with @ and is never opened; the files opened are at
\* most as many as the @-prefixed elements of the original list.
C7_SingleLevel ==
  /\ [](fpc # "parsed" => Len(opens) <= NumAt(Len(osArgs)))
  /\ [][ (fpc = "read" /\ fpc' = "close")
           => args' = args \o buildargv(contents) /\ opens' = opens ]_vars
  /\ [][ opens' # opens
           => /\ fpc = "loop" /\ IsAt(CurArg)
              /\ opens' = Append(opens, Tail(CurArg)) ]_vars

\* [prog, @r], with r holding the tokens @r and @m<SP>, has been expanded
\* to [prog, @r, @m<SP>] with one file opened
C7_Witness ==
  /\ fpc = "parsed"
  /\ osArgs = << <<112, 114, 111, 103>>, <<64, 114>>, <<64, 109, 32>> >>
  /\ opens = << <<114>> >>

\* the arguments for which a file has been opened so far
Visited == IF fpc \in {"opened", "read", "close", "fatal"} THEN ai + 1 ELSE ai

\* C8: the arguments are visited in their original order; every argument
\* that does not begin with @, the zero-length one included, stands in the
\* expanded list unchanged; the expanded list is the in-order
\* concatenation of the per-argument results; no file is opened for a
\* pass-through argument.
C8_PassThrough ==
  /\ AtLoopHead =>
       /\ args = FlatRes(ai)
       /\ \A k \in 1..ai : ~IsAt(osArgs[k]) => Slice(k) = <<osArgs[k]>>
  /\ fpc # "parsed" =>
       /\ ai <= Len(osArgs)
       /\ Len(opens) = NumAt(Visited)

\* [<empty>, -x, prog] has been copied whole and no file was opened
C8_Witness ==
  /\ fpc = "parsed"
  /\ osArgs = << <<>>, <<45, 120>>, <<112, 114, 111, 103>> >>
  /\ opens = <<>>

-----------------------------------------------------------------------------
\* Properties of count.Set (checked under SpecCount).  lastS' is the text
\* the step's call of Set was given.

\* s is a decimal numeral: an optional sign and one or more digits
IsNumeral(s) ==
  LET b == IF Len(s) >= 1 /\ s[1] \in {43, 45} THEN Tail(s) ELSE s
  IN  Len(b) >= 1 /\ \A k \in 1..Len(b) : b[k] \in 48..57

\* the magnitude of the digits b[1..k], most significant first
RECURSIVE Magnitude(_, _)
Magnitude(b, k) ==
  IF k = 0 THEN 0
  ELSE (b[k] - 48) * (10 ^ (Len(b) - k)) + Magnitude(b, k - 1)

\* the integer a decimal numeral denotes
NumeralValue(s) ==
  LET b == IF s[1] \in {43, 45} THEN Tail(s) ELSE s
  IN  IF s[1] = 45 THEN -Magnitude(b, Len(b)) ELSE Magnitude(b, Len(b))

\* s parses as a base-10 integer of the int type
ParsesAsInt(s) ==
  /\ IsNumeral(s)
  /\ NumeralValue(s) >= -(2 ^ (IntBits - 1))
  /\ NumeralValue(s) <= 2 ^ (IntBits - 1) - 1

\* the stored count after the calls Set(ss[1]), Set(ss[2]), ... on cv
RECURSIVE SetAll(_, _)
SetAll(cv, ss) ==
  IF ss = <<>> THEN cv ELSE SetAll(countSet(cv, Head(ss)).c, Tail(ss))

\* the documented run: from 0, three Set("true") give 3, Set("false")
\* gives 0, Set("7") gives 7
FoldExample ==
  LET t == <<116, 114, 117, 101>>
      f == <<102, 97, 108, 115, 101>>
  IN  /\ SetAll(0, <<t>>) = 1
      /\ SetAll(0, <<t, t, t>>) = 3
      /\ SetAll(0, <<t, t, t, f>>) = 0
      /\ SetAll(0, <<t, t, t, f, <<55>> >>) = 7

\* C9 as stated: Set("true") adds exactly one to the stored count, whatever
\* the count; Set("false") sets it to zero; Set of a text that parses as
\* the integer n sets it to n; each of these calls returns no error.
C9_Original ==
  /\ [][ LET s == lastS'
         IN  /\ s = <<116, 114, 117, 101>> => c' = c + 1 /\ cerr'.nil
             /\ s = <<102, 97, 108, 115, 101>> => c' = 0 /\ cerr'.nil
             /\ ParsesAsInt(s) => c' = NumeralValue(s) /\ cerr'.nil ]_vars
  /\ []FoldExample

\* C9, amended: as stated, except that Set("true") on the largest int
\* wraps around to the smallest int.
C9_SetFold ==
  /\ [][ LET s == lastS'
         IN  /\ s = <<116, 114, 117, 101>>
               => /\ c' = IF c = 2 ^ (IntBits - 1) - 1
                            THEN -(2 ^ (IntBits - 1)) ELSE c + 1
                  /\ cerr'.nil
             /\ s = <<102, 97, 108, 115, 101>> => c' = 0 /\ cerr'.nil
             /\ ParsesAsInt(s) => c' = NumeralValue(s) /\ cerr'.nil ]_vars
  /\ []FoldExample

\* Set("true") on the largest int has wrapped around
C9_Witness ==
  /\ lastS = <<116, 114, 117, 101>>
  /\ c = -(2 ^ (IntBits - 1))
  /\ cerr.nil

\* C10: Set of a text that is neither "true" nor "false" and does not
\* parse as a base-10 integer returns an error naming the text and leaves
\* the stored count as it was; the process does not terminate.
C10_InvalidCount ==
  [][ LET s == lastS'
      IN  (s # <<116, 114, 117, 101>> /\ s # <<102, 97, 108, 115, 101>>
           /\ ~ParsesAsInt(s))
            => /\ ~cerr'.nil
               /\ SubSeq(cerr'.msg, 1, 14)
                    = <<105, 110, 118, 97, 108, 105, 100, 32, 99, 111, 117,
                        110, 116, 32>>
               /\ Len(cerr'.msg) >= 14 + Len(s) + 2
               /\ (\A k \in 1..Len(s) : s[k] \notin {34, 92})
                    => SubSeq(cerr'.msg, 15, Len(cerr'.msg))
                         = <<34>> \o s \o <<34>>
               /\ c' = c
               /\ proc' = "running" ]_vars

\* Set("abc") has failed on a count of 3, which is still 3
C10_Witness ==
  /\ lastS = <<97, 98, 99>>
  /\ ~cerr.nil
  /\ c = 3
  /\ proc = "running"

-----------------------------------------------------------------------------
\* Further properties of buildargv (checked under SpecArgv, the
\* termination under SpecArgvFair)

\* a parsing state is on
AnyFlag == squote \/ dquote \/ bsquote

\* C11: buildargv has no failure outcome: when the buffer ends inside an
\* open quote or right after an unconsumed backslash, the bytes
\* accumulated for the current argument (possibly none) are still emitted
\* as the last argument, and the arguments emitted before are unaffected.
C11_Unterminated ==
  /\ [][ (bpc = "scan" /\ di >= Len(data) /\ AnyFlag)
           => result' = Append(result, arg) /\ bpc' = "argloop" ]_vars
  /\ [][ /\ Len(result') >= Len(result)
         /\ SubSeq(result', 1, Len(result)) = result ]_vars
  /\ [](bpc \in {"start", "argloop", "scan", "done"} /\ proc = "running")
  /\ [](bpc # "done" => ENABLED NextArgv)
  /\ []((bpc = "done" /\ AnyFlag)
          => Len(result) >= 1 /\ result[Len(result)] = arg)
  /\ []((bpc = "done" /\ data = <<39, 97>>) => result = << <<97>> >>)
  /\ []((bpc = "done" /\ data = <<97, 32, 34>>) => result = << <<97>>, <<>> >>)
  /\ []((bpc = "done" /\ data = <<92>>) => result = << <<>> >>)
  /\ []((bpc = "done" /\ data = <<97, 32, 92>>) => result = << <<97>>, <<>> >>)

\* a<SP>" has been tokenized: the open quote's empty argument is the last
C11_Witness ==
  /\ bpc = "done"
  /\ data = <<97, 32, 34>>
  /\ dquote
  /\ result = << <<97>>, <<>> >>

\* C18: at most one of the two quote modes is on in every state; a quote
\* byte of the other kind met while a quote mode is on is appended as
\* content and does not turn the other mode on.
C18_OneQuoteMode ==
  /\ [](~(squote /\ dquote))
  /\ [][ ScanningByte =>
           LET ch == data[di + 1]
           IN  /\ (squote /\ ~bsquote /\ ch = 34)
                    => arg' = Append(arg, ch) /\ squote' /\ ~dquote'
               /\ (dquote /\ ~bsquote /\ ch = 39)
                    => arg' = Append(arg, ch) /\ dquote' /\ ~squote' ]_vars
  /\ [](bpc = "done" /\ data = <<97, 32, 34, 98, 9, 39, 99, 34, 100>>
          => result = << <<97>>, <<98, 9, 39, 99, 100>> >>)

\* a "b<TAB>'c"d has been tokenized with the single quote kept as content
C18_Witness ==
  /\ bpc = "done"
  /\ data = <<97, 32, 34, 98, 9, 39, 99, 34, 100>>
  /\ result = << <<97>>, <<98, 9, 39, 99, 100>> >>

\* the total length of the arguments of a list
RECURSIVE TotalLen(_)
TotalLen(r) == IF r = <<>> THEN 0 ELSE Len(Head(r)) + TotalLen(Tail(r))

C20_NoLeak ==
  /\ []((bpc = "argloop" /\ di < Len(data))
          => ~squote /\ ~dquote /\ ~bsquote /\ data[di + 1] \notin WS6)
  /\ [][ (bpc = "scan" /\ bpc' = "argloop" /\ di < Len(data))
           => ~squote /\ ~dquote /\ ~bsquote ]_vars
  /\ [][ (bpc = "argloop" /\ bpc' = "scan")
           => /\ ~squote' /\ ~dquote' /\ ~bsquote'
              /\ squote' = squote /\ dquote' = dquote /\ bsquote' = bsquote
              /\ arg' = <<>> ]_vars

\* the scan of the third argument of a 'b c' d is about to start, after a
\* quoted argument
C20_Witness ==
  /\ bpc = "argloop"
  /\ data = <<97, 32, 39, 98, 32, 99, 39, 32, 100>>
  /\ Len(result) = 2
  /\ di = 8

-----------------------------------------------------------------------------
\* Further properties of Flagparse (checked under Spec)

\* the process is outside the iteration of a response file: between two
\* arguments, past the loop, or terminated
OutsideIteration == fpc \in {"loop", "parsed", "fatal"}

\* C12: every response file opened is closed on every exit path of its
\* iteration, the fatal exits included: the process never leaves the
\* iteration with the file open, and at most one response file is open at
\* a time.
C12_ClosedOnExit ==
  /\ Cardinality(openFiles) <= 1
  /\ OutsideIteration => openFiles = {}

\* the error of the operation that failed on the argument the process
\* died on
UnderlyingError(a) ==
  IF OpenFails(a) THEN FileOf(a).open
  ELSE IF ReadFails(a) THEN FileOf(a).read
  ELSE FileOf(a).close

\* C13: the fatal message names the offending file and the underlying
\* error of the operation that failed; when the open fails for a reason
\* other than not-found, the error reported is the error of that open.
C13_FatalMessage ==
  fpc = "fatal" =>
    /\ Len(logged) >= 1
    /\ logged[Len(logged)].kind = "Fatalf"
    /\ logged[Len(logged)].path = Tail(CurArg)
    /\ logged[Len(logged)].err = UnderlyingError(CurArg)

-----------------------------------------------------------------------------
\* versionFlag and the flag parser that calls the Set methods
\* (checked under SpecVersion)

\* longest enumerated list of flags after the program path
MaxFlags == 2

StrExe     == <<46, 101, 120, 101>>
StrDevel   == <<100, 101, 118, 101, 108>>
StrFull    == <<102, 117, 108, 108>>
StrVersion == <<32, 118, 101, 114, 115, 105, 111, 110, 32>>
StrBuildID == <<32, 98, 117, 105, 108, 100, 73, 68, 61>>

\* strings.LastIndex(s, ch): the 0-based index of the last ch, or -1
LastIndex(sq, ch) ==
  IF \E i \in 1..Len(sq) : sq[i] = ch
    THEN (CHOOSE i \in 1..Len(sq) :
            sq[i] = ch /\ \A j \in (i + 1)..Len(sq) : sq[j] # ch) - 1
    ELSE -1

\* s[i:]
SliceFrom(sq, i) == SubSeq(sq, i + 1, Len(sq))

\* strings.HasPrefix
HasPrefix(sq, pre) == Len(sq) >= Len(pre) /\ SubSeq(sq, 1, Len(pre)) = pre

\* strings.TrimSuffix
TrimSuffix(sq, suf) ==
  IF Len(sq) >= Len(suf) /\ SubSeq(sq, Len(sq) - Len(suf) + 1, Len(sq)) = suf
    THEN SubSeq(sq, 1, Len(sq) - Len(suf))
    ELSE sq

programName_SlashOnly(a0) ==
  TrimSuffix(SliceFrom(a0, LastIndex(a0, 47) + 1), StrExe)

\* lines 215-218
programName(a0) ==
  LET n1 == SliceFrom(a0, LastIndex(a0, 47) + 1)
      n2 == SliceFrom(n1, LastIndex(n1, BSLASH) + 1)
  IN  TrimSuffix(n2, StrExe)

versionLine_FullOnly(a0, sv, ver, exp, def, bid) ==
  LET p0  == IF exp = def THEN <<>> ELSE exp
      sep == IF p0 # <<>> THEN <<SPACE>> ELSE <<>>
      p   == IF sv = StrFull THEN p0 \o StrBuildID \o bid ELSE p0
  IN  programName(a0) \o StrVersion \o ver \o sep \o p \o <<NEWLN>>

versionLine_SepAlways(a0, sv, ver, exp, def, bid) ==
  LET p0  == IF exp = def THEN <<>> ELSE exp
      sep == <<SPACE>>
      p   == IF sv = StrFull /\ HasPrefix(ver, StrDevel)
               THEN p0 \o StrBuildID \o bid ELSE p0
  IN  programName(a0) \o StrVersion \o ver \o sep \o p \o <<NEWLN>>

\* lines 215-236: the line Set(sv) prints
versionLine(a0, sv, ver, exp, def, bid) ==
  LET p0  == IF exp = def THEN <<>> ELSE exp
      sep == IF p0 # <<>> THEN <<SPACE>> ELSE <<>>
      p   == IF sv = StrFull /\ HasPrefix(ver, StrDevel)
               THEN p0 \o StrBuildID \o bid ELSE p0
  IN  programName(a0) \o StrVersion \o ver \o sep \o p \o <<NEWLN>>

\* flag.Parse: an argument -name or -name=value
IsFlagArg(a) == Len(a) >= 2 /\ a[1] = 45

\* the index of the = that ends the name, or 0
EqIndex(a) ==
  IF \E i \in 3..Len(a) : a[i] = 61
    THEN CHOOSE i \in 3..Len(a) : a[i] = 61 /\ \A j \in 3..(i - 1) : a[j] # 61
    ELSE 0

FlagName(a) ==
  IF EqIndex(a) = 0 THEN Tail(a) ELSE SubSeq(a, 2, EqIndex(a) - 1)

\* the text Set is called with: the value given, or true for a boolean
\* flag without one (lines 211, 270)
FlagSetText(a) ==
  IF EqIndex(a) = 0 THEN StrTrue ELSE SubSeq(a, EqIndex(a) + 1, Len(a))

\* the names Flagcount (lines 52-54) and AddVersionFlag (lines 203-205)
\* register
NameCount   == <<118>>     \* v
NameVersion == <<86>>      \* V

\* the argument the flag parser is at
FlagArg == osArgs[fi + 1]

ParsingFlag(name) ==
  /\ vpc = "parse"
  /\ proc = "running"
  /\ fi < Len(osArgs)
  /\ IsFlagArg(FlagArg)
  /\ FlagName(FlagArg) = name

\* flag.Parse calls count.Set (lines 250-264), which returns nil
FlagSetCount ==
  /\ ParsingFlag(NameCount)
  /\ LET r == countSet(c, FlagSetText(FlagArg))
     IN  /\ r.err.nil
         /\ c' = r.c
         /\ cerr' = r.err
  /\ lastS' = FlagSetText(FlagArg)
  /\ fi' = fi + 1
  /\ UNCHANGED <<Version, expstring, defaultExpstring, buildID, stdout, vpc,
                 proc, exitCode>>

\* flag.Parse calls count.Set, which returns an error: the parser of the
\* command line reports it and exits with status 2
FlagSetCountFails ==
  /\ ParsingFlag(NameCount)
  /\ LET r == countSet(c, FlagSetText(FlagArg))
     IN  /\ ~r.err.nil
         /\ c' = r.c
         /\ cerr' = r.err
  /\ lastS' = FlagSetText(FlagArg)
  /\ proc' = "exited"
  /\ exitCode' = 2
  /\ UNCHANGED <<Version, expstring, defaultExpstring, buildID, stdout, vpc,
                 fi>>

VersionFlagSet_Returns ==
  /\ ParsingFlag(NameVersion)
  /\ stdout' = Append(stdout,
                      versionLine(osArgs[1], FlagSetText(FlagArg), Version,
                                  expstring, defaultExpstring, buildID))
  /\ fi' = fi + 1
  /\ UNCHANGED <<Version, expstring, defaultExpstring, buildID, vpc, proc,
                 exitCode, c, cerr, lastS>>

\* lines 214-239: flag.Parse calls versionFlag.Set, which prints the line
\* and exits with status 0
VersionFlagSet ==
  /\ ParsingFlag(NameVersion)
  /\ stdout' = Append(stdout,
                      versionLine(osArgs[1], FlagSetText(FlagArg), Version,
                                  expstring, defaultExpstring, buildID))
  /\ proc' = "exited"
  /\ exitCode' = 0
  /\ UNCHANGED <<Version, expstring, defaultExpstring, buildID, vpc, fi,
                 c, cerr, lastS>>

\* flag.Parse returns after the last argument
FlagParseReturn ==
  /\ vpc = "parse"
  /\ proc = "running"
  /\ fi >= Len(osArgs)
  /\ vpc' = "returned"
  /\ UNCHANGED <<Version, expstring, defaultExpstring, buildID, stdout, fi,
                 proc, exitCode, c, cerr, lastS>>

\* the program paths, the flags, the release versions and the experiment
\* descriptors the version flag is run on
ProgPaths ==
  { <<47, 117, 115, 114, 47, 108, 111, 99, 97, 108, 47, 98, 105, 110, 47, 116, 111, 111, 108, 46, 101, 120, 101>>,
    <<97, 92, 98, 47, 99>>,
    <<97, 47, 98, 92, 99, 46, 101, 120, 101>>,
    <<116, 46, 101, 120, 101, 46, 101, 120, 101>>,
    <<116, 111, 111, 108>> }

FlagPool ==
  { <<45, 118>>, <<45, 118, 61, 55>>, <<45, 118, 61, 120>>, <<45, 86>>, <<45, 86, 61, 102, 117, 108, 108>>, <<45, 86, 61, 102, 117, 108, 108, 120>> }

FlagLists == UNION { [1..n -> FlagPool] : n \in 0..MaxFlags }

Versions == { <<100, 101, 118, 101, 108>>, <<100, 101, 118, 101, 108, 43, 49>>, <<100, 101, 118, 101>>, <<120, 100, 101, 118, 101, 108>> }

\* Expstring() and DefaultExpstring() (lines 219-220) give descriptors of
\* the form X:...
ExpStrings == { <<88, 58, 97>>, <<88, 58, 98>> }
DefaultExpStrings == { <<88, 58, 97>> }

BuildIDs == { <<>>, <<105, 100>> }

\* flag.Parse (line 200) runs on os.Args as Flagparse left it
InitVersion ==
  /\ \E a0 \in ProgPaths : \E fl \in FlagLists : osArgs = <<a0>> \o fl
  /\ fs = [p \in Paths |-> [open |-> "ENOENT", read |-> "ok", close |-> "ok",
                            contents |-> <<>>]]
  /\ args = osArgs /\ ai = Len(osArgs) /\ file = NilFile /\ err = "nil"
  /\ contents = <<>> /\ fpc = "parsed" /\ opens = <<>> /\ openFiles = {}
  /\ logged = <<>> /\ parsed = TRUE
  /\ Version \in Versions
  /\ expstring \in ExpStrings
  /\ defaultExpstring \in DefaultExpStrings
  /\ buildID \in BuildIDs
  /\ stdout = <<>> /\ fi = 1 /\ vpc = "parse"
  /\ Running /\ IdleArgv /\ IdleCount

NextVersion ==
  \/ FlagSetCount /\ UNCHANGED <<varsArgv, varsFlag>>
  \/ FlagSetCountFails /\ UNCHANGED <<varsArgv, varsFlag>>
  \/ VersionFlagSet /\ UNCHANGED <<varsArgv, varsFlag>>
  \/ FlagParseReturn /\ UNCHANGED <<varsArgv, varsFlag>>

SpecVersion == InitVersion /\ [][NextVersion]_vars

-----------------------------------------------------------------------------
\* Claims about versionFlag.Set (SpecVersion)

\* a is the version flag, with or without a value
IsVersionArg(a) ==
  /\ Len(a) >= 2 /\ a[1] = 45 /\ a[2] = 86
  /\ (Len(a) = 2 \/ a[3] = 61)

\* a is the count flag, with or without a value
IsCountArg(a) ==
  /\ Len(a) >= 2 /\ a[1] = 45 /\ a[2] = 118
  /\ (Len(a) = 2 \/ a[3] = 61)

\* the value a flag argument passes to Set
ValueOf(a) == IF Len(a) = 2 THEN <<116, 114, 117, 101>> ELSE SubSeq(a, 4, Len(a))

\* the flag parser is about to call versionFlag.Set
AtVersionFlag ==
  /\ vpc = "parse" /\ proc = "running" /\ fi < Len(osArgs)
  /\ IsVersionArg(osArgs[fi + 1])

\* versionFlag.Set has run: it is the only exit with status 0
VersionExited == proc = "exited" /\ exitCode = 0

\* the value versionFlag.Set was called with and the line it wrote
SetValue == ValueOf(osArgs[fi + 1])
Line == stdout[1]

\* the values of the flags before the one the parser is at
ValuesBefore == [k \in 1..(fi - 1) |-> ValueOf(osArgs[k + 1])]

\* sub occurs in sq
Contains(sq, sub) ==
  \E i \in 1..(Len(sq) - Len(sub) + 1) : SubSeq(sq, i, i + Len(sub) - 1) = sub

StartsWith(sq, pre) ==
  /\ Len(pre) <= Len(sq)
  /\ \A i \in 1..Len(pre) : sq[i] = pre[i]

EndsWith(sq, suf) ==
  /\ Len(suf) <= Len(sq)
  /\ \A i \in 1..Len(suf) : sq[Len(sq) - Len(suf) + i] = suf[i]

\* C14: activating the version flag writes exactly one version line and
\* terminates the process with status 0; Set never returns to the flag
\* parser, so no flag after the version flag is processed, while the flags
\* before it have been applied.
C14_VersionExits ==
  /\ [][ AtVersionFlag
           => /\ Len(stdout') = Len(stdout) + 1
              /\ proc' = "exited" /\ exitCode' = 0
              /\ fi' = fi /\ c' = c /\ vpc' = vpc ]_vars
  /\ [][ proc # "exited" ]_vars
  /\ [](Len(stdout) <= 1)
  /\ [](VersionExited
          => /\ Len(stdout) = 1
             /\ vpc = "parse"
             /\ IsVersionArg(osArgs[fi + 1])
             /\ \A k \in 1..(fi - 1) : IsCountArg(osArgs[k + 1])
             /\ c = SetAll(0, ValuesBefore))
  /\ [](Len(stdout) = 1 => VersionExited)

\* -v -V -v: the count flag before the version flag has been applied, the
\* one after it has not
C14_Witness ==
  /\ VersionExited
  /\ Len(osArgs) = 3
  /\ osArgs[2] = <<45, 118>> /\ osArgs[3] = <<45, 86>>
  /\ fi = 2 /\ c = 1
  /\ Len(stdout) = 1

\* the build-identifier suffix of the line
BuildSuffix == <<32, 98, 117, 105, 108, 100, 73, 68, 61>> \o buildID

\* the release version begins with devel
IsDevel == StartsWith(Version, <<100, 101, 118, 101, 108>>)

\* C15: the version line contains the build-identifier suffix if and only
\* if the value passed to Set is exactly full and the release version
\* begins with devel.
C15_BuildID ==
  VersionExited
    => /\ Contains(Line, <<32, 98, 117, 105, 108, 100, 73, 68, 61>>) <=> (SetValue = <<102, 117, 108, 108>> /\ IsDevel)
       /\ Contains(Line, <<98, 117, 105, 108, 100, 73, 68>>) <=> (SetValue = <<102, 117, 108, 108>> /\ IsDevel)
       /\ (SetValue = <<102, 117, 108, 108>> /\ IsDevel)
            => EndsWith(Line, BuildSuffix \o <<10>>)

\* value full on a release that only resembles devel: no suffix
C15_Witness ==
  /\ VersionExited
  /\ SetValue = <<102, 117, 108, 108>>
  /\ Version = <<100, 101, 118, 101>>
  /\ buildID = <<105, 100>>
  /\ ~Contains(Line, <<98, 117, 105, 108, 100, 73, 68>>)

\* the position of the last separator of either kind, 0 if there is none
LastSep(a) ==
  IF \E i \in 1..Len(a) : a[i] \in {47, 92}
    THEN CHOOSE i \in 1..Len(a) :
           /\ a[i] \in {47, 92}
           /\ \A j \in (i + 1)..Len(a) : a[j] \notin {47, 92}
    ELSE 0

\* what follows the last separator, with one trailing .exe removed
BaseName(a) ==
  LET n == SubSeq(a, LastSep(a) + 1, Len(a))
  IN  IF EndsWith(n, <<46, 101, 120, 101>>) THEN SubSeq(n, 1, Len(n) - 4) ELSE n

\* C16: the program name printed is the first element of the argument list
\* after its last separator (forward slash or backslash), with one trailing
\* .exe removed; for /usr/local/bin/tool.exe it is tool.
C16_ProgramName ==
  /\ VersionExited
       => StartsWith(Line, BaseName(osArgs[1]) \o <<32, 118, 101, 114, 115, 105, 111, 110, 32>> \o Version)
  /\ programName(<<47, 117, 115, 114, 47, 108, 111, 99, 97, 108, 47, 98, 105, 110, 47, 116, 111, 111, 108, 46, 101, 120, 101>>) = <<116, 111, 111, 108>>

\* the version line of a/b\c.exe names c
C16_Witness ==
  /\ VersionExited
  /\ osArgs[1] = <<97, 47, 98, 92, 99, 46, 101, 120, 101>>
  /\ StartsWith(Line, <<99, 32, 118, 101, 114, 115, 105, 111, 110, 32>>)

\* C17: the version line carries the experiment descriptor, one space after
\* the release version, exactly when the descriptor differs from the default
\* descriptor; when it equals the default nothing is written for it and no
\* extra space separates the release version from what follows.
C17_Experiment ==
  VersionExited
    => Line = BaseName(osArgs[1]) \o <<32, 118, 101, 114, 115, 105, 111, 110, 32>> \o Version
                \o (IF expstring # defaultExpstring
                      THEN <<32>> \o expstring ELSE <<>>)
                \o (IF SetValue = <<102, 117, 108, 108>> /\ IsDevel
                      THEN BuildSuffix ELSE <<>>)
                \o <<10>>

\* the default descriptor with the build identifier: the release version is
\* followed directly by the suffix
C17_Witness ==
  /\ VersionExited
  /\ expstring = defaultExpstring
  /\ SetValue = <<102, 117, 108, 108>> /\ Version = <<100, 101, 118, 101, 108>> /\ buildID = <<105, 100>>
  /\ osArgs[1] = <<116, 111, 111, 108>>
  /\ Line = <<116, 111, 111, 108, 32, 118, 101, 114, 115, 105, 111, 110, 32, 100, 101, 118, 101, 108, 32, 98, 117, 105, 108, 100, 73, 68, 61, 105, 100>> \o <<10>>

=============================================================================
